---- MODULE Spec2Model ----
(***************************************************************************)
(* Model of MARBL_tools/MARBL_utils.py: the two dictionary validators      *)
(* settings_dictionary_is_consistent and                                   *)
(* diagnostics_dictionary_is_consistent, and their helper                  *)
(* _valid_variable_dict.                                                   *)
(*                                                                         *)
(* Encoding of the Python values the validators read:                      *)
(*  - a dict is a sequence of items [key |-> k, val |-> v] in insertion    *)
(*    order (the order Python iterates .keys()); keys are distinct;        *)
(*  - a value that may or may not be a dict carries ismap;                 *)
(*  - a frequency/operator value is [kind, s, items]: kind "list" with its *)
(*    elements in items, kind "str" with the string in s, kind "num" for a *)
(*    number;                                                              *)
(*  - a string that the code indexes or measures is looked up in Chars.    *)
(* A call ends either by returning a boolean or by raising. The logger is   *)
(* the one object logging.getLogger(__name__) gives every call: the records *)
(* of logger.error / logger.info are appended to what it already holds. A  *)
(* dictionary is an object the caller keeps: a call is made on it as the   *)
(* calls before left it.                                                   *)
(***************************************************************************)
EXTENDS Naturals, Sequences, FiniteSets

VARIABLES
    fn,            \* the function under call: "settings", "diagnostics" or "variable"
    SettingsDict,  \* the argument of settings_dictionary_is_consistent
    DiagsDict,     \* the argument of diagnostics_dictionary_is_consistent
    var_dict,      \* the first argument of _valid_variable_dict
    var_name,      \* the second argument of _valid_variable_dict
    pc,            \* "ready": the call is about to be made; "done": it has ended
    result,        \* what the last call left: return value or exception, and its log lines
    logged,        \* the records handed to the module's logger since the program started
    calls,         \* the number of calls made
    first          \* the first call made: its function, its dictionary and its result

vars == <<fn, SettingsDict, DiagsDict, var_dict, var_name, pc, result, logged, calls, first>>

(***************************************************************************)
(* Bounds of the model.                                                    *)
(***************************************************************************)
MaxLen == 2
MaxDiags == 2
MaxOrder == 2
MaxCats == 2
MaxVars == 2
MaxSubvars == 2
MaxCalls == 3

(***************************************************************************)
(* Strings: the characters of every string the code may index or measure.  *)
(***************************************************************************)
Chars(s) ==
    CASE s = "" -> << >>
      [] s = "no" -> <<"n", "o">>
      [] s = "max" -> <<"m", "a", "x">>
      [] s = "high" -> <<"h", "i", "g", "h">>
      [] s = "daily" -> <<"d", "a", "i", "l", "y">>
      [] s = "average" -> <<"a", "v", "e", "r", "a", "g", "e">>
      [] s = "_order" -> <<"_", "o", "r", "d", "e", "r">>
      [] s = "_meta" -> <<"_", "m", "e", "t", "a">>
      [] s = "_type_name" -> <<"_", "t", "y", "p", "e", "_", "n", "a", "m", "e">>
      [] s = "cat1" -> <<"c", "a", "t", "1">>
      [] s = "cat2" -> <<"c", "a", "t", "2">>
      [] s = "cat12" -> <<"c", "a", "t", "1", "2">>
      [] s = "cat3" -> <<"c", "a", "t", "3">>
      [] s = "sub1" -> <<"s", "u", "b", "1">>
      [] s = "sub2" -> <<"s", "u", "b", "2">>
      [] s = "sub3" -> <<"s", "u", "b", "3">>

StrVal(s) == [kind |-> "str", s |-> s, items |-> << >>]
ListVal(items) == [kind |-> "list", s |-> "", items |-> items]
NumVal == [kind |-> "num", s |-> "", items |-> << >>]
NoVal == [kind |-> "none", s |-> "", items |-> << >>]

(***************************************************************************)
(* Logging and the state of a call in progress.                            *)
(***************************************************************************)
LogLine(level, msg, name, field, value) ==
    [level |-> level, msg |-> msg, name |-> name, field |-> field, value |-> value]

\* `logger = logging.getLogger(__name__); invalid_file = False`
Start(logger) == [log |-> logger, invalid_file |-> FALSE, raised |-> "none"]

Emit(st, line) == [st EXCEPT !.log = Append(@, line)]

Invalid(st) == [st EXCEPT !.invalid_file = TRUE]

Raise(st, exc) == [st EXCEPT !.raised = exc]

KeysOf(d) == {d[i].key : i \in 1..Len(d)}

\* d[key] for a key the dict holds
Get(d, key) == d[CHOOSE i \in 1..Len(d) : d[i].key = key].val

\* "fmt" % args: one argument per conversion, and %d takes a number only
PercentFormat(convs, argtypes) ==
    IF Len(convs) # Len(argtypes)
       \/ \E i \in 1..Len(convs) : convs[i] = "d" /\ argtypes[i] # "int"
    THEN "TypeError" ELSE "ok"

\* what a call leaves: return (not invalid_file) or the exception, the
\* logger, and the dictionary it was called on (arg)
Finish(st, arg) ==
    [status |-> IF st.raised = "none" THEN "return" ELSE "raise",
     value |-> st.raised = "none" /\ ~st.invalid_file,
     exc |-> st.raised,
     log |-> st.log,
     invalid_file |-> st.invalid_file,
     arg |-> arg]

(***************************************************************************)
(* _valid_variable_dict(var_dict, var_name)                                *)
(* var_dict is [ismap, keys, default_value, datatype]; keys is the set of  *)
(* its keys, default_value is [ismap, keys] with keys in dict order.       *)
(* The result is the call state after the helper and the value it returns. *)
(***************************************************************************)
key_checks == <<"longname", "subcategory", "units", "datatype", "default_value">>

\* the mutation of FirstMissing: the loop goes on to the last missing key
LastMissing(keys) ==
    LET missing == {i \in 1..Len(key_checks) : key_checks[i] \notin keys}
    IN  IF missing = {} THEN 0
        ELSE CHOOSE i \in missing : \A j \in missing : i >= j

\* the first key_check the loop finds missing (0: none)
FirstMissing(keys) ==
    LET missing == {i \in 1..Len(key_checks) : key_checks[i] \notin keys}
    IN  IF missing = {} THEN 0
        ELSE CHOOSE i \in missing : \A j \in missing : i <= j

SeqHas(seq, x) == \E i \in 1..Len(seq) : seq[i] = x

valid_variable_dict(st, var_dict_, var_name_) ==
    IF ~var_dict_.ismap
    THEN \* var_dict.keys() on a value that is no dict
         [st |-> Raise(st, "AttributeError"), ret |-> FALSE]
    ELSE IF FirstMissing(var_dict_.keys) # 0
    THEN [st |-> Emit(st, LogLine("error", "Variable is not well-defined in YAML, expecting key",
                                  var_name_, key_checks[FirstMissing(var_dict_.keys)], NoVal)),
          ret |-> FALSE]
    ELSE IF var_dict_.default_value.ismap /\ ~SeqHas(var_dict_.default_value.keys, "default")
    THEN [st |-> Emit(Emit(st,
                           LogLine("error", "default_value dictionary in variable must have 'default' key",
                                   var_name_, "", NoVal)),
                      LogLine("info", "Keys in default_value are",
                              "", "", ListVal(var_dict_.default_value.keys))),
          ret |-> FALSE]
    ELSE [st |-> st, ret |-> TRUE]

(***************************************************************************)
(* diagnostics_dictionary_is_consistent(DiagsDict)                         *)
(* DiagsDict is [ismap, items]; an entry is [ismap, keys, frequency,       *)
(* operator], keys the set of its keys.                                    *)
(***************************************************************************)
required_fields == <<"module", "longname", "units", "vertical_grid", "frequency", "operator">>

ok_freqs == {"never", "low", "medium", "high"}

ok_ops == {"instantaneous", "average", "minimum", "maximum"}

IsList(v) == v.kind = "list"

\* `x not in ok`: only a string can equal one of the allowed strings
NotIn(v, ok) == ~(v.kind = "str" /\ v.s \in ok)

\* len(v): the elements of a list, the characters of a string; a number has none
PyLen(v) ==
    CASE v.kind = "list" -> [exc |-> "none", n |-> Len(v.items)]
      [] v.kind = "str" -> [exc |-> "none", n |-> Len(Chars(v.s))]
      [] OTHER -> [exc |-> "TypeError", n |-> 0]

\* v[n] (n from 0) of a list or a string
Index(v, n) ==
    IF v.kind = "list" THEN StrVal(v.items[n + 1]) ELSE StrVal(Chars(v.s)[n + 1])

\* the loop over required_field, from field i on; rs is [st, bad_diag_name_dict]
RECURSIVE RequiredLoop(_, _, _, _)
RequiredLoop(rs, diag_name, diag_subkeys, i) ==
    IF i > Len(required_fields) THEN rs
    ELSE RequiredLoop(
           IF required_fields[i] \notin diag_subkeys
           THEN [st |-> Invalid(Emit(rs.st, LogLine("error", "not a key in DiagsDict", diag_name,
                                                    required_fields[i], NoVal))),
                 bad_diag_name_dict |-> TRUE]
           ELSE rs,
           diag_name, diag_subkeys, i + 1)

\* one frequency/operator pair
CheckPair(st, diag_name, freq, op) ==
    LET st1 == IF NotIn(freq, ok_freqs)
               THEN Invalid(Emit(st, LogLine("error", "is not a valid frequency",
                                             diag_name, "", freq)))
               ELSE st
    IN  IF NotIn(op, ok_ops)
        THEN Invalid(Emit(st1, LogLine("error", "is not a valid operator", diag_name, "", op)))
        ELSE st1

\* for n, freq in enumerate(frequency), from n on
RECURSIVE EnumLoop(_, _, _, _, _)
EnumLoop(st, diag_name, frequency, operator, n) ==
    IF n >= Len(frequency.items) THEN st
    ELSE EnumLoop(CheckPair(st, diag_name, Index(frequency, n), Index(operator, n)),
                  diag_name, frequency, operator, n + 1)

\* the conversions and arguments of the length message
LengthMessageConvs == <<"s", "d", "d">>

LengthMessageArgs == <<"str", "str", "int", "int">>

\* `if freq_len != op_len:` with its body; skip tells the `continue`
LengthCheck(st, diag_name, freq_len, op_len) ==
    IF freq_len # op_len
    THEN IF PercentFormat(LengthMessageConvs, LengthMessageArgs) # "ok"
         THEN [st |-> Raise(st, PercentFormat(LengthMessageConvs, LengthMessageArgs)),
               skip |-> TRUE]
         ELSE [st |-> Invalid(Emit(st, LogLine("error", "frequency and operator lengths differ",
                                               diag_name, "", NoVal))),
               skip |-> TRUE]
    ELSE [st |-> st, skip |-> FALSE]

\* `if isinstance(frequency, list) != isinstance(operator, list):` with its body
ListnessCheck(st, diag_name, frequency, operator) ==
    IF IsList(frequency) # IsList(operator)
    THEN Emit(st, LogLine("error", "either both frequency and operator must be lists or neither can be",
                          diag_name, "", NoVal))
    ELSE st

\* the body of `for diag_name in DiagsDict.keys()` for one entry
diag_body(st, diag_name, diag) ==
    IF ~diag.ismap
    THEN Invalid(Emit(st, LogLine("error", "must be a dictionary", diag_name, "", NoVal)))
    ELSE LET rs == RequiredLoop([st |-> st, bad_diag_name_dict |-> FALSE],
                                diag_name, diag.keys, 1)
    IN IF rs.bad_diag_name_dict THEN rs.st
    ELSE LET st1 == ListnessCheck(rs.st, diag_name, diag.frequency, diag.operator)
             op_len_ == IF IsList(diag.frequency) THEN PyLen(diag.operator)
                        ELSE [exc |-> "none", n |-> 1]
             freq_len == IF IsList(diag.frequency) THEN Len(diag.frequency.items) ELSE 1
         IN  IF op_len_.exc # "none" THEN Raise(st1, op_len_.exc)
             ELSE LET lc == LengthCheck(st1, diag_name, freq_len, op_len_.n)
                  IN  IF lc.skip THEN lc.st
                      ELSE IF IsList(diag.frequency)
                      THEN EnumLoop(lc.st, diag_name, diag.frequency, diag.operator, 0)
                      ELSE CheckPair(lc.st, diag_name, diag.frequency, diag.operator)

\* the loop over the entries, from entry i on; an exception ends it
RECURSIVE DiagLoop(_, _, _)
DiagLoop(st, items, i) ==
    IF i > Len(items) \/ st.raised # "none" THEN st
    ELSE DiagLoop(diag_body(st, items[i].key, items[i].val), items, i + 1)

diagnostics_dictionary_is_consistent(DiagsDict_, logger) ==
    IF ~DiagsDict_.ismap
    THEN [status |-> "return", value |-> FALSE, exc |-> "none",
          log |-> Append(logger, LogLine("error", "Argument must be a dictionary", "", "", NoVal)),
          invalid_file |-> FALSE,
          arg |-> DiagsDict_]
    ELSE Finish(DiagLoop(Start(logger), DiagsDict_.items, 1), DiagsDict_)

(***************************************************************************)
(* settings_dictionary_is_consistent(SettingsDict)                         *)
(* SettingsDict is [ismap, items]; a top-level value is [kind, order,      *)
(* items, s]: kind "list" with its elements, which are strings, in order,  *)
(* kind "map" with its items in items, kind "str" with the string in s,    *)
(* kind "num" for a number. Any of the four may be the value of _order or  *)
(* of a category. A variable is a var_dict whose datatype is [ismap,       *)
(* items], items being the sub-variables of a derived type.                *)
(***************************************************************************)
\* name[0] != '_': indexing the empty string raises
FirstCharCheck(name) ==
    IF Len(Chars(name)) = 0 THEN [exc |-> "IndexError", checked |-> FALSE]
    ELSE [exc |-> "none", checked |-> Chars(name)[1] # "_"]

\* "%s%%%s" % (var_name_, subvar_name)
CombinedName(var_name_, subvar_name) == var_name_ \o "%" \o subvar_name

\* `if not _valid_variable_dict(...): invalid_file = True`
ApplyFieldCheck(st, var_dict_, var_name_) ==
    LET r == valid_variable_dict(st, var_dict_, var_name_)
    IN  IF r.st.raised # "none" THEN r.st
        ELSE IF ~r.ret THEN Invalid(r.st) ELSE r.st

\* for subvar_name in datatype.keys(), from sub-variable i on
RECURSIVE SubvarLoop(_, _, _, _)
SubvarLoop(st, var_name_, subvars, i) ==
    IF i > Len(subvars) \/ st.raised # "none" THEN st
    ELSE LET c == FirstCharCheck(subvars[i].key)
         IN  SubvarLoop(
               IF c.exc # "none" THEN Raise(st, c.exc)
               ELSE IF c.checked
               THEN ApplyFieldCheck(st, subvars[i].val, CombinedName(var_name_, subvars[i].key))
               ELSE st,
               var_name_, subvars, i + 1)

\* the body of `for var_name_ in SettingsDict[cat_name].keys()` for one variable
var_body(st, var_name_, var) ==
    IF ~var.ismap THEN Raise(st, "AttributeError")
    ELSE IF "datatype" \notin var.keys
    THEN Invalid(Emit(st, LogLine("error", "Variable does not contain a key for datatype",
                                  var_name_, "", NoVal)))
    ELSE IF ~var.datatype.ismap
    THEN ApplyFieldCheck(st, var, var_name_)
    ELSE SubvarLoop(st, var_name_, var.datatype.items, 1)

RECURSIVE VarLoop(_, _, _)
VarLoop(st, variables, i) ==
    IF i > Len(variables) \/ st.raised # "none" THEN st
    ELSE VarLoop(var_body(st, variables[i].key, variables[i].val), variables, i + 1)

\* a in b for two strings: a is a substring of b
IsSubstring(a, b) ==
    \E i \in 0..Len(b) : i + Len(a) <= Len(b) /\ SubSeq(b, i + 1, i + Len(a)) = a

\* what `for cat_name in SettingsDict["_order"]` iterates: the elements of a
\* list, the keys of a dict, the characters of a string; a number raises
IterOrder(order) ==
    CASE order.kind = "list" -> [exc |-> "none", names |-> order.order]
      [] order.kind = "map" ->
           [exc |-> "none", names |-> [i \in 1..Len(order.items) |-> order.items[i].key]]
      [] order.kind = "str" -> [exc |-> "none", names |-> Chars(order.s)]
      [] OTHER -> [exc |-> "TypeError", names |-> << >>]

\* cat_name in SettingsDict["_order"]: an element of a list, a key of a dict,
\* a substring of a string; a number raises
InOrder(cat_name, order) ==
    CASE order.kind = "list" -> [exc |-> "none", isin |-> SeqHas(order.order, cat_name)]
      [] order.kind = "map" -> [exc |-> "none", isin |-> cat_name \in KeysOf(order.items)]
      [] order.kind = "str" ->
           [exc |-> "none", isin |-> IsSubstring(Chars(cat_name), Chars(order.s))]
      [] OTHER -> [exc |-> "TypeError", isin |-> FALSE]

\* `if cat_name not in SettingsDict["_order"]:` with its body
UnlistedCheck(st, cat_name, order) ==
    LET c == InOrder(cat_name, order)
    IN  IF c.exc # "none" THEN Raise(st, c.exc)
        ELSE IF ~c.isin
        THEN Invalid(Emit(st, LogLine("error", "Category not included in _order",
                                      cat_name, "", NoVal)))
        ELSE st

\* the body of `for cat_name in SettingsDict.keys()` for one key
cat_body(st, cat_name, val, order) ==
    LET c == FirstCharCheck(cat_name)
    IN  IF c.exc # "none" THEN Raise(st, c.exc)
        ELSE IF ~c.checked THEN st
        ELSE LET st1 == UnlistedCheck(st, cat_name, order)
             IN  IF st1.raised # "none" THEN st1
                 ELSE IF val.kind # "map" THEN Raise(st1, "AttributeError")
                 ELSE VarLoop(st1, val.items, 1)

RECURSIVE CatLoop(_, _, _, _)
CatLoop(st, items, order, i) ==
    IF i > Len(items) \/ st.raised # "none" THEN st
    ELSE CatLoop(cat_body(st, items[i].key, items[i].val, order), items, order, i + 1)

\* for cat_name in SettingsDict["_order"], from name i of the iteration on
RECURSIVE OrderLoop(_, _, _, _)
OrderLoop(st, names, keys, i) ==
    IF i > Len(names) THEN st
    ELSE OrderLoop(
           IF names[i] \notin keys
           THEN Invalid(Emit(st, LogLine("error", "Can not find category that is listed in _order",
                                         names[i], "", NoVal)))
           ELSE st,
           names, keys, i + 1)

\* the mutation of MissingOrder: the early return reports the file invalid
MissingOrderInvalid(st, arg) ==
    [status |-> "return", value |-> FALSE, exc |-> "none",
     log |-> Append(st.log, LogLine("error", "Can not find _order key", "", "", NoVal)),
     invalid_file |-> st.invalid_file,
     arg |-> arg]

\* `logger.error("Can not find _order key"); return True`
MissingOrder(st, arg) ==
    [status |-> "return", value |-> TRUE, exc |-> "none",
     log |-> Append(st.log, LogLine("error", "Can not find _order key", "", "", NoVal)),
     invalid_file |-> st.invalid_file,
     arg |-> arg]

\* the mutation of GetOrder: SettingsDict.pop("_order"), the key is taken out
PopOrder(SettingsDict_) ==
    [val |-> Get(SettingsDict_.items, "_order"),
     dict |-> [SettingsDict_ EXCEPT
                !.items = SelectSeq(@, LAMBDA item : item.key # "_order")]]

\* `SettingsDict["_order"]`: the value, and the dictionary as the read leaves it
GetOrder(SettingsDict_) ==
    [val |-> Get(SettingsDict_.items, "_order"), dict |-> SettingsDict_]

settings_dictionary_is_consistent(SettingsDict_, logger) ==
    IF ~SettingsDict_.ismap
    THEN Finish(Raise(Start(logger), "AttributeError"), SettingsDict_)
    ELSE IF "_order" \notin KeysOf(SettingsDict_.items)
    THEN MissingOrder(Start(logger), SettingsDict_)
    ELSE LET read == GetOrder(SettingsDict_)
             order == read.val
             it == IterOrder(order)
             st0 == Start(logger)
         IN  IF it.exc # "none" THEN Finish(Raise(st0, it.exc), read.dict)
             ELSE Finish(CatLoop(OrderLoop(st0, it.names, KeysOf(read.dict.items), 1),
                                 read.dict.items, order, 1),
                         read.dict)

(***************************************************************************)
(* The inputs: bounded sets of the values the three functions accept.      *)
(* A container is built around one element drawn from the full set of its  *)
(* kind, its other elements drawn from a few companions.                   *)
(***************************************************************************)
\* the sequences of n distinct elements of S
InjSeqs(S, n) == {q \in [1..n -> S] : \A i, j \in 1..n : q[i] = q[j] => i = j}

\* --- variable dictionaries
VarFieldSet == {key_checks[i] : i \in 1..Len(key_checks)}

NoDefault == [ismap |-> FALSE, keys |-> << >>]

SettingsDefaults ==
    {NoDefault, [ismap |-> TRUE, keys |-> <<"default">>], [ismap |-> TRUE, keys |-> <<"other">>]}

DefaultValues ==
    SettingsDefaults \cup {[ismap |-> TRUE, keys |-> << >>],
                           [ismap |-> TRUE, keys |-> <<"other", "default">>]}

ScalarType == [ismap |-> FALSE, items |-> << >>]

VarDict(ismap, keys, dv, dt) ==
    [ismap |-> ismap, keys |-> keys, default_value |-> dv, datatype |-> dt]

NonMapVar == VarDict(FALSE, {}, NoDefault, ScalarType)

GoodLeaf == VarDict(TRUE, VarFieldSet, NoDefault, ScalarType)

BadLeaf == VarDict(TRUE, VarFieldSet \ {"longname"}, NoDefault, ScalarType)

\* a sub-variable's own derived type, holding an incomplete variable
NestedType == [ismap |-> TRUE, items |-> <<[key |-> "sub1", val |-> BadLeaf]>>]

LeafTypes == {ScalarType, NestedType}

\* the dicts with a key set of keysets, a default_value of dvs and a datatype of dts
VarDictsOver(keysets, dvs, dts) ==
    UNION {{VarDict(TRUE, K, dv, dt) :
              dv \in (IF "default_value" \in K THEN dvs ELSE {NoDefault}),
              dt \in (IF "datatype" \in K THEN dts ELSE {ScalarType})} : K \in keysets}

LeafVars == {NonMapVar} \cup VarDictsOver(SUBSET VarFieldSet, DefaultValues, LeafTypes)

VarNameInputs == {"v1", "v1%sub1"}

\* --- settings dictionaries
SettingsKeySets == {VarFieldSet, {}} \cup {VarFieldSet \ {f} : f \in VarFieldSet}

SettingsLeafs == {NonMapVar} \cup VarDictsOver(SettingsKeySets, SettingsDefaults, LeafTypes)

CompanionLeafs == {GoodLeaf, BadLeaf}

SubNames == {"sub1", "sub2", "_type_name", ""}

SubListsOf(n) ==
    {[i \in 1..n |-> [key |-> k[i], val |-> IF i = p THEN e ELSE c[i]]] :
        k \in InjSeqs(SubNames, n), p \in 1..n, e \in SettingsLeafs,
        c \in [1..n -> CompanionLeafs]}

\* the sub-variable lists of a derived type, of at most m sub-variables
SubLists(m) == {<< >>} \cup UNION {SubListsOf(n) : n \in 1..m}

DerivedVar(keys, subvars) ==
    VarDict(TRUE, keys, NoDefault, [ismap |-> TRUE, items |-> subvars])

ScalarVars == {NonMapVar} \cup VarDictsOver(SettingsKeySets, SettingsDefaults, {ScalarType})

DerivedVars(m) ==
    {DerivedVar({"datatype"}, l) : l \in SubLists(m)}
    \cup {DerivedVar(VarFieldSet, l) : l \in {<< >>} \cup SubListsOf(1)}

NoTypeVar == VarDict(TRUE, VarFieldSet \ {"datatype"}, NoDefault, ScalarType)

CompanionVars == {GoodLeaf, NoTypeVar}

SmallVars == ScalarVars \cup {DerivedVar({"datatype"}, <<[key |-> "sub1", val |-> BadLeaf]>>)}

VarNames == <<"v1", "v2", "v3", "v4">>

VarListsOf(n) ==
    {[i \in 1..n |-> [key |-> VarNames[i], val |-> IF i = p THEN e ELSE c[i]]] :
        p \in 1..n, e \in SmallVars, c \in [1..n -> CompanionVars]}

Cat(variables) == [kind |-> "map", order |-> << >>, items |-> variables, s |-> ""]

NonMapCat == [kind |-> "num", order |-> << >>, items |-> << >>, s |-> ""]

OrderVal(order) == [kind |-> "list", order |-> order, items |-> << >>, s |-> ""]

StrOrder(s) == [kind |-> "str", order |-> << >>, items |-> << >>, s |-> s]

GoodCat == Cat(<<[key |-> "v1", val |-> GoodLeaf]>>)

BadCat == Cat(<<[key |-> "v1", val |-> NoTypeVar]>>)

CompanionCats == {GoodCat, BadCat, NonMapCat}

\* the categories of at most mv variables, of at most ms sub-variables each
FocusCats(mv, ms) ==
    {Cat(<< >>)}
    \cup {Cat(<<[key |-> "v1", val |-> v]>>) : v \in ScalarVars \cup DerivedVars(ms)}
    \cup {Cat(l) : l \in UNION {VarListsOf(n) : n \in 2..mv}}

OrderNames == {"cat1", "cat2", ""}

Orders(mo) == UNION {[1..n -> OrderNames] : n \in 0..mo}

CatNames == {"cat1", "cat2", "_meta", ""}

Dict(items) == [ismap |-> TRUE, items |-> items]

\* category c as cat1: listed in _order, not listed, or without _order
AroundCategory(t, c) ==
    CASE t = 1 -> Dict(<<[key |-> "_order", val |-> OrderVal(<<"cat1">>)],
                         [key |-> "cat1", val |-> c]>>)
      [] t = 2 -> Dict(<<[key |-> "cat1", val |-> c],
                         [key |-> "_order", val |-> OrderVal(<< >>)]>>)
      [] t = 3 -> Dict(<<[key |-> "cat1", val |-> c]>>)

\* one category around which the dictionary is built
FocusDicts(mv, ms) == {AroundCategory(t, c) : t \in 1..3, c \in FocusCats(mv, ms)}

CatLists(mc) ==
    UNION {{[i \in 1..n |-> [key |-> k[i], val |-> c[i]]] :
              k \in InjSeqs(CatNames, n), c \in [1..n -> CompanionCats]} : n \in 0..mc}

\* the categories l with _order o before them, or without _order
AroundOrder(t, l, o) ==
    CASE t = 1 -> Dict(<<[key |-> "_order", val |-> OrderVal(o)]>> \o l)
      [] t = 2 -> Dict(l)

\* the keys and _order around which the dictionary is built
StructDicts(mc, mo) == {AroundOrder(t, l, o) : t \in 1..2, l \in CatLists(mc), o \in Orders(mo)}

\* the values of _order that are no list: a number, a dict, a string
OddOrders ==
    {NonMapCat, Cat(<< >>), Cat(<<[key |-> "cat1", val |-> GoodLeaf]>>), GoodCat,
     StrOrder(""), StrOrder("cat1"), StrOrder("cat12")}

\* the categories l with an _order that is no list before or after them
OddOrderDicts(mc) ==
    {Dict(<<[key |-> "_order", val |-> o]>> \o l) : l \in CatLists(mc), o \in OddOrders}
    \cup {Dict(l \o <<[key |-> "_order", val |-> o]>>) : l \in CatLists(1), o \in OddOrders}

SettingsDicts(mo, mc, mv, ms) ==
    FocusDicts(mv, ms) \cup StructDicts(mc, mo) \cup OddOrderDicts(mc)
    \cup {[ismap |-> FALSE, items |-> << >>]}

\* --- diagnostics dictionaries
ListElems == {"high", "average", "daily"}

ScalarStrings == {"high", "average", "daily", "", "no"}

\* the frequency and operator values, lists being of at most ml elements
Vals(ml) ==
    UNION {{ListVal(q) : q \in [1..n -> ListElems]} : n \in 0..ml}
    \cup {StrVal(x) : x \in ScalarStrings} \cup {NumVal}

RequiredSet == {required_fields[i] : i \in 1..Len(required_fields)}

DiagEntry(ismap, keys, frequency, operator) ==
    [ismap |-> ismap, keys |-> keys, frequency |-> frequency, operator |-> operator]

NonMapEntry == DiagEntry(FALSE, {}, NoVal, NoVal)

CompleteEntries(ml) == {DiagEntry(TRUE, RequiredSet, f, o) : f \in Vals(ml), o \in Vals(ml)}

\* an entry missing keys; the frequency and operator it holds are not consistent
IncompleteEntries ==
    {DiagEntry(TRUE, K,
               IF "frequency" \in K THEN ListVal(<<"daily">>) ELSE NoVal,
               IF "operator" \in K THEN StrVal("high") ELSE NoVal) :
        K \in (SUBSET RequiredSet) \ {RequiredSet}}

Entries(ml) == {NonMapEntry} \cup CompleteEntries(ml) \cup IncompleteEntries

GoodEntry == DiagEntry(TRUE, RequiredSet, StrVal("high"), StrVal("average"))

DailyEntry == DiagEntry(TRUE, RequiredSet, StrVal("daily"), StrVal("average"))

LengthsEntry ==
    DiagEntry(TRUE, RequiredSet, ListVal(<<"high", "high">>), ListVal(<<"average">>))

NoUnitsEntry == DiagEntry(TRUE, RequiredSet \ {"units"}, StrVal("high"), StrVal("average"))

CompanionEntries == {GoodEntry, DailyEntry, LengthsEntry, NoUnitsEntry}

DiagNames == <<"diag1", "diag2", "diag3", "diag4">>

\* the entry lists of at most md entries
DiagLists(md, ml) ==
    {<< >>}
    \cup UNION {{[i \in 1..n |-> [key |-> DiagNames[i], val |-> IF i = p THEN e ELSE c[i]]] :
                   p \in 1..n, e \in Entries(ml), c \in [1..n -> CompanionEntries]} : n \in 1..md}

DiagsDicts(md, ml) ==
    {Dict(l) : l \in DiagLists(md, ml)} \cup {[ismap |-> FALSE, items |-> << >>]}

\* --- the inputs of repeated calls
\* the dictionaries of a first call that is made again later
RepeatSettings(mo) ==
    FocusDicts(1, 1) \cup StructDicts(1, mo) \cup OddOrderDicts(1)
    \cup {[ismap |-> FALSE, items |-> << >>]}

RepeatDiags(ml) ==
    DiagsDicts(1, ml)
    \cup {Dict(<<[key |-> "diag1", val |-> e], [key |-> "diag2", val |-> c]>>) :
            e \in CompanionEntries \cup {NonMapEntry}, c \in CompanionEntries}

\* the dictionaries of the calls made in between: one whose call logs and
\* returns False, one whose call logs and raises
BetweenSettings ==
    {Dict(<<[key |-> "_order", val |-> OrderVal(<<"cat1", "cat2">>)],
            [key |-> "cat1", val |-> BadCat]>>)}

BetweenDiags ==
    {Dict(<<[key |-> "diag1", val |-> DailyEntry], [key |-> "diag2", val |-> LengthsEntry]>>)}

(***************************************************************************)
(* The state machine: an argument is chosen, the function is called on it. *)
(***************************************************************************)
NoResult ==
    [status |-> "none", value |-> FALSE, exc |-> "none", log |-> << >>, invalid_file |-> FALSE,
     arg |-> Dict(<< >>), given |-> Dict(<< >>)]

NoCall == [fn |-> "none", given |-> Dict(<< >>), left |-> Dict(<< >>), result |-> NoResult]

InitCommon ==
    /\ pc = "ready"
    /\ result = NoResult
    /\ logged = << >>
    /\ calls = 0
    /\ first = NoCall

InitSettings ==
    /\ fn = "settings"
    /\ SettingsDict \in SettingsDicts(MaxOrder, MaxCats, MaxVars, MaxSubvars)
    /\ DiagsDict = Dict(<< >>)
    /\ var_dict = NonMapVar
    /\ var_name = ""
    /\ InitCommon

InitDiagnostics ==
    /\ fn = "diagnostics"
    /\ SettingsDict = Dict(<< >>)
    /\ DiagsDict \in DiagsDicts(MaxDiags, MaxLen)
    /\ var_dict = NonMapVar
    /\ var_name = ""
    /\ InitCommon

InitVariable ==
    /\ fn = "variable"
    /\ SettingsDict = Dict(<< >>)
    /\ DiagsDict = Dict(<< >>)
    /\ var_dict \in LeafVars
    /\ var_name \in VarNameInputs
    /\ InitCommon

InitRepeat ==
    /\ \/ /\ fn = "settings"
          /\ SettingsDict \in RepeatSettings(MaxOrder)
          /\ DiagsDict = Dict(<< >>)
       \/ /\ fn = "diagnostics"
          /\ SettingsDict = Dict(<< >>)
          /\ DiagsDict \in RepeatDiags(MaxLen)
    /\ var_dict = NonMapVar
    /\ var_name = ""
    /\ InitCommon

Init == InitSettings \/ InitDiagnostics \/ InitVariable

\* the records the call handed to the logger: what r.log holds after `before`
Emitted(r, before) == SubSeq(r.log, Len(before) + 1, Len(r.log))

\* the call on dictionary `given` ends with r: the result is kept with the
\* records the call emitted, the logger keeps them all, and the first call is
\* remembered with its dictionary as every call on it so far has left it
Ended(r, given) ==
    /\ result' = [status |-> r.status, value |-> r.value, exc |-> r.exc,
                  log |-> Emitted(r, logged), invalid_file |-> r.invalid_file,
                  arg |-> r.arg, given |-> given]
    /\ logged' = r.log
    /\ pc' = "done"
    /\ calls' = calls + 1
    /\ first' = IF first.fn = "none"
                THEN [fn |-> fn, given |-> given, left |-> r.arg, result |-> result']
                ELSE IF fn = first.fn /\ given = first.left
                THEN [first EXCEPT !.left = r.arg]
                ELSE first

ValidateSettings ==
    /\ pc = "ready" /\ fn = "settings"
    /\ Ended(settings_dictionary_is_consistent(SettingsDict, logged), SettingsDict)
    /\ SettingsDict' = result'.arg
    /\ UNCHANGED <<fn, DiagsDict, var_dict, var_name>>

ValidateDiagnostics ==
    /\ pc = "ready" /\ fn = "diagnostics"
    /\ Ended(diagnostics_dictionary_is_consistent(DiagsDict, logged), DiagsDict)
    /\ DiagsDict' = result'.arg
    /\ UNCHANGED <<fn, SettingsDict, var_dict, var_name>>

CheckVariable ==
    /\ pc = "ready" /\ fn = "variable"
    /\ LET r == valid_variable_dict(Start(logged), var_dict, var_name)
       IN  Ended([status |-> IF r.st.raised = "none" THEN "return" ELSE "raise",
                  value |-> r.ret, exc |-> r.st.raised, log |-> r.st.log,
                  invalid_file |-> FALSE, arg |-> Dict(<< >>)],
                 Dict(<< >>))
    /\ UNCHANGED <<fn, SettingsDict, DiagsDict, var_dict, var_name>>

\* the caller validates again the dictionary of its first call, as the calls
\* on it have left it
ValidateAgain ==
    /\ fn' = first.fn
    /\ SettingsDict' = IF first.fn = "settings" THEN first.left ELSE Dict(<< >>)
    /\ DiagsDict' = IF first.fn = "diagnostics" THEN first.left ELSE Dict(<< >>)

\* the caller picks the validator and the dictionary of its next call
NextInput ==
    /\ pc = "done" /\ calls < MaxCalls
    /\ \/ ValidateAgain
       \/ fn' = "settings" /\ SettingsDict' \in BetweenSettings /\ DiagsDict' = Dict(<< >>)
       \/ fn' = "diagnostics" /\ SettingsDict' = Dict(<< >>) /\ DiagsDict' \in BetweenDiags
    /\ pc' = "ready"
    /\ UNCHANGED <<var_dict, var_name, result, logged, calls, first>>

Next == ValidateSettings \/ ValidateDiagnostics \/ CheckVariable

Spec == Init /\ [][Next]_vars

SpecSettings == InitSettings /\ [][ValidateSettings]_vars

SpecDiagnostics == InitDiagnostics /\ [][ValidateDiagnostics]_vars

SpecVariable == InitVariable /\ [][CheckVariable]_vars

NextRepeat == ValidateSettings \/ ValidateDiagnostics \/ NextInput

SpecRepeat == InitRepeat /\ [][NextRepeat]_vars

(***************************************************************************)
(* Properties.                                                             *)
(***************************************************************************)
Done(f) == pc = "done" /\ fn = f

ReturnedTrue(r) == r.status = "return" /\ r.value

ReturnedFalse(r) == r.status = "return" /\ ~r.value

ErrorCount(log) == Cardinality({i \in 1..Len(log) : log[i].level = "error"})

\* the lines of log that name `name`, in order
RECURSIVE LinesFor(_, _)
LinesFor(log, name) ==
    IF log = << >> THEN << >>
    ELSE IF Head(log).name = name THEN <<Head(log)>> \o LinesFor(Tail(log), name)
    ELSE LinesFor(Tail(log), name)

CompleteDiag(e) == e.ismap /\ RequiredSet \subseteq e.keys

\* an entry whose frequency and operator are sequences of different lengths
LengthMismatch(e) ==
    /\ CompleteDiag(e)
    /\ IsList(e.frequency) /\ IsList(e.operator)
    /\ Len(e.frequency.items) # Len(e.operator.items)

DiagEntries == {DiagsDict.items[i].val : i \in 1..Len(DiagsDict.items)}

\* C1: a diagnostics dictionary holding a complete entry whose frequency and
\* operator are sequences of different lengths makes the call return False
\* (a boolean, not an exception). The code raises TypeError while it formats
\* the message of the length mismatch.
C1_LengthMismatchReturnsFalse ==
    (Done("diagnostics") /\ DiagsDict.ismap /\ \E e \in DiagEntries : LengthMismatch(e))
    => ReturnedFalse(result)

\* C2: a call on a mapping returns True iff it logged no violation, the
\* listness mismatch of frequency and operator being one of the violations.
\* Stated over the calls that return: the call on frequency [] with operator ""
\* logs the listness mismatch and returns True.
C2_TrueIffNothingLogged ==
    (Done("diagnostics") /\ DiagsDict.ismap /\ result.status = "return")
    => (result.value <=> ErrorCount(result.log) = 0)

\* The statement of C2 on the dictionaries whose complete entries have a
\* frequency and an operator that are both lists or both not: it holds.
C2_WhereListnessAgrees ==
    (Done("diagnostics") /\ DiagsDict.ismap /\ result.status = "return"
     /\ \A e \in DiagEntries : CompleteDiag(e) => IsList(e.frequency) = IsList(e.operator))
    => (result.value <=> ErrorCount(result.log) = 0)

\* C3: a settings dictionary without _order logs the one error "Can not find
\* _order key", runs none of the category or variable checks and returns True.
C3_MissingOrderReturnsTrue ==
    (Done("settings") /\ SettingsDict.ismap /\ "_order" \notin KeysOf(SettingsDict.items))
    => /\ ReturnedTrue(result)
       /\ result.log = <<LogLine("error", "Can not find _order key", "", "", NoVal)>>

\* a dictionary without _order whose categories would be reported or would raise
C3_Witness ==
    /\ Done("settings") /\ SettingsDict.ismap
    /\ "_order" \notin KeysOf(SettingsDict.items)
    /\ \E i \in 1..Len(SettingsDict.items) :
          SettingsDict.items[i].key = "cat1" /\ SettingsDict.items[i].val = BadCat
    /\ \E i \in 1..Len(SettingsDict.items) : SettingsDict.items[i].key = ""
    /\ ReturnedTrue(result) /\ Len(result.log) = 1

\* a key that does not start with '_'
Checked(key) == Len(Chars(key)) = 0 \/ Chars(key)[1] # "_"

PassesFieldCheck(v) == v.ismap /\ valid_variable_dict(Start(<< >>), v, "").ret

\* the variables of the categories of d
SettingsVariables(d) ==
    UNION {{d.items[i].val.items[j].val : j \in 1..Len(d.items[i].val.items)} :
             i \in {k \in 1..Len(d.items) : Checked(d.items[k].key)}}

SubVariables(v) ==
    {v.datatype.items[j].val :
       j \in {k \in 1..Len(v.datatype.items) : Checked(v.datatype.items[k].key)}}

\* categories, variables and sub-variables are mappings
WellTyped(d) ==
    /\ d.ismap /\ "_order" \in KeysOf(d.items)
    /\ \A i \in 1..Len(d.items) : Checked(d.items[i].key) => d.items[i].val.kind = "map"
    /\ \A v \in SettingsVariables(d) :
          /\ v.ismap
          /\ ("datatype" \in v.keys /\ v.datatype.ismap) => \A w \in SubVariables(v) : w.ismap

VariableComplete(v) ==
    /\ "datatype" \in v.keys
    /\ IF v.datatype.ismap THEN \A w \in SubVariables(v) : PassesFieldCheck(w)
       ELSE PassesFieldCheck(v)

SettingsConsistent(d) ==
    LET order == Get(d.items, "_order")
        names == IterOrder(order).names
    IN  /\ \A i \in 1..Len(names) : names[i] \in KeysOf(d.items)
        /\ \A i \in 1..Len(d.items) :
              Checked(d.items[i].key) => InOrder(d.items[i].key, order).isin
        /\ \A v \in SettingsVariables(d) : VariableComplete(v)

\* C4: on a settings dictionary with _order whose categories and variables
\* are mappings the call returns True iff no error is logged, which is exactly
\* when _order and the categories match and every variable is complete.
\* On {"_order": [""], "": {...}} the code raises IndexError.
C4_TrueIffConsistent ==
    (Done("settings") /\ WellTyped(SettingsDict))
    => /\ ReturnedTrue(result) <=> ErrorCount(result.log) = 0
       /\ ErrorCount(result.log) = 0 <=> SettingsConsistent(SettingsDict)

\* no key of the dictionary or of a derived type is the empty string
NoEmptyKeys(d) ==
    /\ \A i \in 1..Len(d.items) : d.items[i].key # ""
    /\ \A v \in SettingsVariables(d) :
          \A k \in 1..Len(v.datatype.items) : v.datatype.items[k].key # ""

\* the value of _order can be iterated: it is no number
OrderIterable(d) == IterOrder(Get(d.items, "_order")).exc = "none"

\* The statement of C4 on the dictionaries without an empty key whose _order
\* can be iterated: it holds.
C4_WhereKeysNonEmpty ==
    (WellTyped(SettingsDict) /\ NoEmptyKeys(SettingsDict) /\ OrderIterable(SettingsDict))
    => C4_TrueIffConsistent

\* C5: the call on a settings mapping ends by returning a boolean, whatever
\* the keys and values are. The code raises IndexError on an empty key,
\* AttributeError on a category, variable or sub-variable that is no mapping,
\* and TypeError on an _order that is a number.
C5_NeverRaises ==
    (Done("settings") /\ SettingsDict.ismap) => result.status = "return"

SameShape(e) ==
    /\ CompleteDiag(e)
    /\ e.frequency.kind \in {"list", "str"} /\ e.operator.kind \in {"list", "str"}
    /\ IsList(e.frequency) = IsList(e.operator)
    /\ IsList(e.frequency) => Len(e.frequency.items) = Len(e.operator.items)

\* the number of frequency values outside ok_freqs and operator values outside ok_ops
Offending(e) ==
    IF IsList(e.frequency)
    THEN Cardinality({i \in 1..Len(e.frequency.items) : e.frequency.items[i] \notin ok_freqs})
         + Cardinality({i \in 1..Len(e.operator.items) : e.operator.items[i] \notin ok_ops})
    ELSE (IF e.frequency.s \in ok_freqs THEN 0 ELSE 1) + (IF e.operator.s \in ok_ops THEN 0 ELSE 1)

\* C6, the entry alone: the entry is marked invalid iff a value is outside its
\* allowed set, with one error per such value.
C6_EntryParts ==
    (Done("diagnostics") /\ DiagsDict.ismap)
    => \A i \in 1..Len(DiagsDict.items) :
         LET e == DiagsDict.items[i].val
             st == diag_body(Start(<< >>), DiagsDict.items[i].key, e)
         IN  SameShape(e) => /\ st.raised = "none"
                             /\ st.invalid_file <=> Offending(e) > 0
                             /\ ErrorCount(st.log) = Offending(e)

\* C6: an entry with all six keys and frequency/operator of one shape and
\* length is marked invalid iff a value is outside its allowed set, one error
\* being logged per such value, and any dictionary holding an entry with
\* frequency "daily" makes the call return False. With a length-mismatched
\* entry beside it the code raises TypeError.
C6_EnumValues ==
    /\ C6_EntryParts
    /\ (Done("diagnostics") /\ DiagsDict.ismap
        /\ \E e \in DiagEntries : CompleteDiag(e) /\ e.frequency = StrVal("daily"))
       => ReturnedFalse(result)

\* The statement of C6 on the calls that return: it holds.
C6_WhereCallReturns == result.status = "return" => C6_EnumValues

DerivedTyped(v) == v.ismap /\ "datatype" \in v.keys /\ v.datatype.ismap

\* C7: a variable whose datatype is a mapping is marked invalid iff one of its
\* sub-keys not starting with '_' fails the field checker, and a dictionary
\* holding such a variable with a sub-variable missing longname makes the call
\* return False. On a sub-key "" the code raises IndexError.
C7_DerivedType ==
    (Done("settings") /\ WellTyped(SettingsDict))
    => \A v \in SettingsVariables(SettingsDict) :
         DerivedTyped(v)
         => /\ var_body(Start(<< >>), "v", v).invalid_file
               <=> \E w \in SubVariables(v) : ~PassesFieldCheck(w)
            /\ (\E w \in SubVariables(v) : "longname" \notin w.keys) => ReturnedFalse(result)

\* The statement of C7 on the dictionaries without an empty key whose _order
\* can be iterated: it holds.
C7_WhereKeysNonEmpty ==
    (WellTyped(SettingsDict) /\ NoEmptyKeys(SettingsDict) /\ OrderIterable(SettingsDict))
    => C7_DerivedType

\* the last call was made again on the dictionary of the first call, with
\* the validator of the first call
MadeAgain == pc = "done" /\ calls >= 2 /\ fn = first.fn /\ result.given = first.given

\* C8: validating again the dictionary of the first call, with the same
\* validator and whatever calls were made in between, ends as the first call
\* did (the same return value or exception) and hands the logger the same
\* records; and every call leaves its dictionary as it was passed, so that
\* the dictionary of the first call is still what the caller built.
C8_Idempotent ==
    /\ MadeAgain => /\ result.status = first.result.status
                    /\ result.value = first.result.value
                    /\ result.exc = first.result.exc
                    /\ result.log = first.result.log
    /\ pc = "done" => result.arg = result.given /\ first.left = first.given

\* the settings dictionary of the first call, which has _order, is validated
\* again after a call on another dictionary that logged: both calls log and
\* return
C8_Witness ==
    /\ MadeAgain /\ fn = "settings"
    /\ "_order" \in KeysOf(first.given.items)
    /\ result.status = "return" /\ Len(result.log) > 0
    /\ Len(logged) > Len(first.result.log) + Len(result.log)

\* the required fields an entry misses, in the order of required_fields
RECURSIVE MissingFrom(_, _)
MissingFrom(keys, i) ==
    IF i > Len(required_fields) THEN << >>
    ELSE (IF required_fields[i] \in keys THEN << >> ELSE <<required_fields[i]>>)
         \o MissingFrom(keys, i + 1)

\* C9: an entry that is a mapping missing k >= 1 required fields gets exactly
\* k log lines, one per missing field in field order, and the call returns
\* False. With a length-mismatched entry before it the code raises TypeError
\* and the entry is never checked.
C9_MissingFields ==
    (Done("diagnostics") /\ DiagsDict.ismap)
    => \A i \in 1..Len(DiagsDict.items) :
         LET e == DiagsDict.items[i].val
             missing == MissingFrom(e.keys, 1)
             lines == LinesFor(result.log, DiagsDict.items[i].key)
         IN  (e.ismap /\ missing # << >>)
             => /\ Len(lines) = Len(missing)
                /\ \A k \in 1..Len(lines) :
                      /\ lines[k].level = "error"
                      /\ lines[k].msg = "not a key in DiagsDict"
                      /\ lines[k].field = missing[k]
                /\ ReturnedFalse(result)

\* The statement of C9 on the calls that return: it holds.
C9_WhereCallReturns == result.status = "return" => C9_MissingFields

\* C10: on a mapping _valid_variable_dict returns True iff the five keys are
\* present and default_value is no mapping or a mapping with "default"; when it
\* returns False it has logged exactly one error, which for a missing key names
\* the first missing key in the order of key_checks.
C10_FieldChecker ==
    (Done("variable") /\ var_dict.ismap)
    => /\ result.status = "return"
       /\ result.value
          <=> /\ VarFieldSet \subseteq var_dict.keys
              /\ ~var_dict.default_value.ismap \/ SeqHas(var_dict.default_value.keys, "default")
       /\ ~result.value
          => /\ ErrorCount(result.log) = 1
             /\ result.log[1].level = "error"
             /\ result.log[1].name = var_name
             /\ ~(VarFieldSet \subseteq var_dict.keys)
                => \E i \in 1..Len(key_checks) :
                      /\ result.log = <<LogLine("error",
                                                "Variable is not well-defined in YAML, expecting key",
                                                var_name, key_checks[i], NoVal)>>
                      /\ key_checks[i] \notin var_dict.keys
                      /\ \A j \in 1..(i - 1) : key_checks[j] \in var_dict.keys

\* a mapping missing units and default_value: only units is reported
C10_Witness ==
    /\ Done("variable") /\ var_dict.ismap
    /\ var_dict.keys = {"longname", "subcategory", "datatype"}
    /\ ReturnedFalse(result)
    /\ Len(result.log) = 1 /\ result.log[1].field = "units"

====
